---- MODULE Spec2Model ----
(***************************************************************************)
(* Changelog reconciliation engine of the GitHub -> Confluence extension.  *)
(*                                                                         *)
(* Strings are modelled lexically.                                         *)
(*  - A version string is the sequence of its "."-separated parts; a part  *)
(*    is [pre, num, suf]: optional leading non-digit text ("v", "x"),      *)
(*    an optional digit run (num = -1 when the part has no digit), and     *)
(*    optional trailing non-digit text ("-beta").  The empty string is     *)
(*    the empty sequence.                                                  *)
(***************************************************************************)
EXTENDS Integers, Sequences, FiniteSets, TLC

\* ------------------------------------------------------------------ bounds
MaxNum == 1          \* largest numeric component of a generated version
MaxParts == 4        \* longest purely numeric version, in components
MaxMixedParts == 2   \* longest version that has textual parts
MaxTripleParts == 1  \* longest version of a compared triple
MaxPRs == 2          \* most pull requests merged during a run
MaxRows == 1         \* most data rows of the page before the first pass
MaxPasses == 2       \* most passes of a run
MaxCalls == 1        \* most direct calls of the merger in a run

VARIABLES
    version1, version2, version3,  \* inputs of the version comparator
    vpc,                           \* "input" | "compared"
    cmp12, cmp21, cmp23, cmp13, cmp11,  \* compareVersions results
    newer12, newer21               \* isNewerVersion results

verVars == <<version1, version2, version3, vpc, cmp12, cmp21, cmp23, cmp13,
             cmp11, newer12, newer21>>

VARIABLES
    github,        \* merged pull requests of the branch, as the API lists them
    page,          \* the Confluence page: [body, version]
    settings,      \* the required settings that storage holds a value for
    answers,       \* merger harness: what GitHub answered during the last call
    lastChecked,   \* stored last-checked timestamp (NoTimestamp if unset)
    passes,        \* number of passes run so far
    lastPass,      \* what the most recent pass did
    prevPass       \* what the pass before it did

passVars == <<github, page, settings, answers, lastChecked, passes, lastPass, prevPass>>

VARIABLES
    hpc,           \* function harnesses: "idle" | "input" | "done"
    dateInput,     \* the string handed to parseTableDate
    dateOutput,    \* what it returned
    parsedTable,   \* what getLatestEntryFromTable returned for page.body
    candidate,     \* the pull request handed to extractVersionAndPRDetails
    response,      \* what GitHub answers to its two requests
    extraction     \* what it returned

harnessVars == <<hpc, dateInput, dateOutput, parsedTable, candidate, response, extraction>>

VARIABLES
    form,          \* options page: the value typed into each field of the form
    saved,         \* options page: handleSave has stored the form
    stored0        \* the settings storage held when the options page was opened

optionVars == <<form, saved, stored0>>

VARIABLES
    run,           \* per trigger: the pass it started, step by step
    message,       \* the message the listener got and where its handler is
    responses      \* the sendResponse calls made for it, in order

triggerVars == <<run, message, responses>>

uiVars == <<optionVars, triggerVars>>

vars == <<verVars, passVars, harnessVars, uiVars>>

\* ------------------------------------------------------- version strings
NumPart(n) == [pre |-> FALSE, num |-> n, suf |-> FALSE]    \* "3"
TextPart == [pre |-> TRUE, num |-> -1, suf |-> FALSE]      \* "beta"
PrefixedPart(n) == [pre |-> TRUE, num |-> n, suf |-> FALSE] \* "v3"
SuffixedPart(n) == [pre |-> FALSE, num |-> n, suf |-> TRUE] \* "3-rc"

EmptyVersion == <<>>
V(a, b, c) == <<NumPart(a), NumPart(b), NumPart(c)>>

NumParts == {NumPart(n) : n \in 0..MaxNum}
MixedParts == NumParts \cup {TextPart}
                 \cup {PrefixedPart(n) : n \in 0..MaxNum}
                 \cup {SuffixedPart(n) : n \in 0..MaxNum}

SeqsUpTo(S, n) == UNION {[1..k -> S] : k \in 0..n}

NumericVersions == SeqsUpTo(NumParts, MaxParts) \ {EmptyVersion}
MixedVersions == SeqsUpTo(MixedParts, MaxMixedParts)
VersionStrings == NumericVersions \cup MixedVersions
TripleVersions == SeqsUpTo(MixedParts, MaxTripleParts)

\* semver's coerce(): the first digit run of the string, followed by up to
\* two more ".<digits>" groups; null (here <<>>) when the string has no digit.
\* Text before the match and everything after it are dropped.
FirstDigitPart(v) ==
    IF \E i \in 1..Len(v) : v[i].num >= 0
    THEN CHOOSE i \in 1..Len(v) :
            v[i].num >= 0 /\ \A j \in 1..(i-1) : v[j].num < 0
    ELSE 0

CoerceFrom(v, i) ==
    LET follows(j) == /\ j <= Len(v)
                      /\ ~v[j-1].suf
                      /\ ~v[j].pre
                      /\ v[j].num >= 0
    IN  IF i = 0 THEN <<>>
        ELSE << v[i].num,
                IF follows(i+1) THEN v[i+1].num ELSE 0,
                IF follows(i+1) /\ follows(i+2) THEN v[i+2].num ELSE 0 >>

coerce(v) == CoerceFrom(v, FirstDigitPart(v))

\* semver's compare() on two coerced versions (major, minor, patch; no
\* prerelease is left after coerce)
compare(c1, c2) ==
    IF c1[1] # c2[1] THEN (IF c1[1] > c2[1] THEN 1 ELSE -1)
    ELSE IF c1[2] # c2[2] THEN (IF c1[2] > c2[2] THEN 1 ELSE -1)
    ELSE IF c1[3] # c2[3] THEN (IF c1[3] > c2[3] THEN 1 ELSE -1)
    ELSE 0

\* parseInt(part), NaN mapped to 0: a part that does not start with a digit
\* is NaN
ParsedPart(p) == IF p.pre \/ p.num < 0 THEN 0 ELSE p.num

Max(a, b) == IF a >= b THEN a ELSE b

RECURSIVE FallbackCompare(_, _, _, _)
FallbackCompare(parts1, parts2, i, maxLength) ==
    IF i > maxLength THEN 0
    ELSE LET part1 == IF i <= Len(parts1) THEN ParsedPart(parts1[i]) ELSE 0
             part2 == IF i <= Len(parts2) THEN ParsedPart(parts2[i]) ELSE 0
         IN  IF part1 > part2 THEN 1
             ELSE IF part1 < part2 THEN -1
             ELSE FallbackCompare(parts1, parts2, i + 1, maxLength)

\* compareVersions once both versions are known to be non-empty
CompareCoerced(c1, c2, v1, v2) ==
    IF c1 # <<>> /\ c2 # <<>>
    THEN compare(c1, c2)
    ELSE FallbackCompare(v1, v2, 1, Max(Len(v1), Len(v2)))

compareVersions(v1, v2) ==
    IF v1 = EmptyVersion /\ v2 = EmptyVersion THEN 0
    ELSE IF v1 = EmptyVersion THEN -1
    ELSE IF v2 = EmptyVersion THEN 1
    ELSE CompareCoerced(coerce(v1), coerce(v2), v1, v2)

isNewerVersion(v1, v2) ==
    IF v1 = EmptyVersion \/ v2 = EmptyVersion THEN TRUE
    ELSE compareVersions(v1, v2) > 0

\* ------------------------------------------------------------- documents
\* A document (page body, row markup, table content, cell content) is a
\* sequence of tokens.  A token is a tag, a piece of text, or one of the
\* replacement patterns of String.prototype.replace that a PR text can hold.
\*   k : kind; n, m : numbers carried by the token; v : a version string
Tok(k, n, m, v) == [k |-> k, n |-> n, m |-> m, v |-> v]
Tag(k) == Tok(k, 0, 0, <<>>)
NL == Tag("nl")                                 \* "\n"
Txt(id) == Tok("txt", id, 0, <<>>)              \* text without digits or markup
VerText(v) == Tok("ver", 0, 0, v)               \* the text of a version string
PRRef(n) == Tok("pr", n, 0, <<>>)               \* "#<n>"
TimeTag(d, mo) == Tok("time", d, mo, <<>>)      \* <time datetime="yyyy-mo-d" />
SlashDate(a, b) == Tok("slash", a, b, <<>>)     \* "a/b/yyyy"
IsoDate(d, mo) == Tok("iso", d, mo, <<>>)       \* "yyyy-mo-d"

TagKinds == {"table", "/table", "tr", "/tr", "td", "/td", "th", "/th",
             "h2", "/h2", "h4", "/h4", "a", "/a", "time"}
IsTag(t) == t.k \in TagKinds

\* texts of the fixed templates
TxtMinor == 1
TxtStatusPill == 2
TxtChangelogHeading == 3
TxtDeveloper == 4
TxtPlain == 5        \* a PR changelog line without special characters
TxtDollar == 6       \* "$"
TxtIntro == 7        \* page text before the table
TxtOutro == 8        \* page text after the table
NumColumns == 8

\* position of the first token of kind k at or after position from; 0 if none
IndexFrom(s, k, from) ==
    IF \E i \in from..Len(s) : s[i].k = k
    THEN CHOOSE i \in from..Len(s) :
            s[i].k = k /\ \A j \in from..(i-1) : s[j].k # k
    ELSE 0

RECURSIVE Flatten(_)
Flatten(ss) == IF ss = <<>> THEN <<>> ELSE Head(ss) \o Flatten(Tail(ss))

\* array.join("\n")
RECURSIVE JoinNL(_)
JoinNL(ss) ==
    IF ss = <<>> THEN <<>>
    ELSE IF Len(ss) = 1 THEN Head(ss)
    ELSE Head(ss) \o <<NL>> \o JoinNL(Tail(ss))

\* replace(/<[^>]*>/g, "")
StripTags(s) == SelectSeq(s, LAMBDA t : ~IsTag(t))

\* String.prototype.trim
RECURSIVE Trim(_)
Trim(s) ==
    IF s = <<>> THEN s
    ELSE IF Head(s) = NL THEN Trim(Tail(s))
    ELSE IF s[Len(s)] = NL THEN Trim(SubSeq(s, 1, Len(s) - 1))
    ELSE s

\* ----------------------------------------------------------------- dates
\* Scaled calendar: months 1..MonthsPerYear, days 1..DaysPerMonth.  An instant
\* is a day plus "late" (0 = midnight, 1 = later that day).  Local time is UTC.
MonthsPerYear == 2
DaysPerMonth == 3

Instant(mo, d, late) == ((mo - 1) * DaysPerMonth + (d - 1)) * 2 + late
InvalidDate == -1
ValidDay(mo, d) == mo \in 1..MonthsPerYear /\ d \in 1..DaysPerMonth

\* A date string is [fmt, a, b]: "slash" a/b/yyyy, "dash" a-b-yyyy,
\* "iso" yyyy-b-a, "long" a date in words (day a of month b), "" the empty
\* string, "junk" any other text.
DateStr(fmt, a, b) == [fmt |-> fmt, a |-> a, b |-> b]
EmptyDateStr == DateStr("", 0, 0)
JunkDateStr == DateStr("junk", 0, 0)

\* the string a stripped, trimmed cell holds
TextAsDateStr(text) ==
    IF text = <<>> THEN EmptyDateStr
    ELSE IF Len(text) = 1 /\ text[1].k = "slash" THEN DateStr("slash", text[1].n, text[1].m)
    ELSE IF Len(text) = 1 /\ text[1].k = "iso" THEN DateStr("iso", text[1].n, text[1].m)
    ELSE JunkDateStr

\* new Date(string) of the JavaScript engine: a slash or dash date is read
\* month/day/year, an ISO date and a date in words as that day
NativeDate(dateString) ==
    IF dateString.fmt \in {"slash", "dash"} THEN
        IF ValidDay(dateString.a, dateString.b)
        THEN Instant(dateString.a, dateString.b, 0)
        ELSE InvalidDate
    ELSE IF dateString.fmt \in {"iso", "long"} THEN
        IF ValidDay(dateString.b, dateString.a)
        THEN Instant(dateString.b, dateString.a, 0)
        ELSE InvalidDate
    ELSE InvalidDate

\* (mutant) the month-first patterns tried before the day-first ones
parseTableDateMonthFirst(dateString) ==
    IF dateString.fmt = "" THEN InvalidDate
    ELSE IF dateString.fmt \in {"slash", "dash"} /\ ValidDay(dateString.a, dateString.b)
    THEN Instant(dateString.a, dateString.b, 0)
    ELSE IF dateString.fmt \in {"slash", "dash"} /\ ValidDay(dateString.b, dateString.a)
    THEN Instant(dateString.b, dateString.a, 0)
    ELSE IF dateString.fmt = "iso" /\ ValidDay(dateString.b, dateString.a)
    THEN Instant(dateString.b, dateString.a, 0)
    ELSE NativeDate(dateString)

\* date-fns parse with the listed formats in order, then new Date(string)
parseTableDate(dateString) ==
    IF dateString.fmt = "" THEN InvalidDate
    ELSE IF dateString.fmt \in {"slash", "dash"} /\ ValidDay(dateString.b, dateString.a)
    THEN Instant(dateString.b, dateString.a, 0)          \* dd/MM/yyyy, dd-MM-yyyy
    ELSE IF dateString.fmt \in {"slash", "dash"} /\ ValidDay(dateString.a, dateString.b)
    THEN Instant(dateString.a, dateString.b, 0)          \* MM/dd/yyyy, MM-dd-yyyy
    ELSE IF dateString.fmt = "iso" /\ ValidDay(dateString.b, dateString.a)
    THEN Instant(dateString.b, dateString.a, 0)          \* yyyy-MM-dd
    ELSE NativeDate(dateString)

\* ------------------------------------------------------------ table parser
\* the version string a piece of cell text spells
TextAsVersion(text) ==
    IF text = <<>> THEN EmptyVersion
    ELSE IF Len(text) = 1 /\ text[1].k = "ver" THEN text[1].v
    ELSE <<TextPart>>

\* first match of /<open[^>]*>([\s\S]*?)<\/close>/ at or after position
\* from, as <<position of the opening tag, position of the closing tag>>;
\* <<0, 0>> when there is none
WithClose(i, j) == IF j = 0 THEN <<0, 0>> ELSE <<i, j>>
CloseAfter(s, close, i) ==
    IF i = 0 THEN <<0, 0>> ELSE WithClose(i, IndexFrom(s, close, i + 1))
MatchFrom(s, open, close, from) == CloseAfter(s, close, IndexFrom(s, open, from))

Inner(s, match) == SubSeq(s, match[1] + 1, match[2] - 1)

\* /<h4[^>]*>(.*?)<\/h4>/i, then the fallback that strips all tags
VersionOfCell(cellContent, h4Match) ==
    IF h4Match[1] > 0 /\ \A x \in (h4Match[1] + 1)..(h4Match[2] - 1) : cellContent[x] # NL
    THEN TextAsVersion(Trim(Inner(cellContent, h4Match)))
    ELSE TextAsVersion(Trim(StripTags(cellContent)))

extractVersionFromCell(cellContent) ==
    VersionOfCell(cellContent, MatchFrom(cellContent, "h4", "/h4", 1))

\* /<time\s+datetime="([^"]+)"\s*\/?>/i, then the fallback
DateOfCell(cellContent, i) ==
    IF i > 0 /\ ValidDay(cellContent[i].m, cellContent[i].n)
    THEN DateStr("slash", cellContent[i].n, cellContent[i].m)
    ELSE TextAsDateStr(Trim(StripTags(cellContent)))

extractDateFromCell(cellContent) == DateOfCell(cellContent, IndexFrom(cellContent, "time", 1))

\* all matches of /<open[^>]*>([\s\S]*?)<\/close>/g in s, from position from
RECURSIVE Elements(_, _, _, _)
ElementsAt(s, open, close, match) ==
    IF match[1] = 0 THEN <<>>
    ELSE <<Inner(s, match)>> \o Elements(s, open, close, match[2] + 1)

Elements(s, open, close, from) ==
    ElementsAt(s, open, close, MatchFrom(s, open, close, from))

\* /<table[^>]*>([\s\S]*?)<\/table>/i
TableMatch(content) == MatchFrom(content, "table", "/table", 1)

NoPR == 0

\* prCell.match(/#(\d+)/)
PRNumberAt(prCell, p) == IF p > 0 THEN prCell[p].n ELSE NoPR
PRNumberOfCell(cell) == PRNumberAt(cell, IndexFrom(cell, "pr", 1))

\* entries.push(...), for valid entries only
Entry(version, releaseDate, parsedDate, prNumber) ==
    IF version # EmptyVersion /\ releaseDate.fmt # "" /\ parsedDate # InvalidDate
    THEN << [version |-> version, releaseDate |-> releaseDate,
             rawDate |-> parsedDate, prNumber |-> prNumber] >>
    ELSE <<>>

DatedEntry(version, releaseDate, prNumber) ==
    Entry(version, releaseDate, parseTableDate(releaseDate), prNumber)

\* the entry a row with these cells contributes: zero or one entries
CellsEntry(row, cells) ==
    IF \E x \in 1..Len(row) : row[x].k = "th" THEN <<>>
    ELSE IF ~(Len(cells) > 6 /\ cells[2] # <<>> /\ cells[7] # <<>>) THEN <<>>
    ELSE DatedEntry(extractVersionFromCell(cells[2]),
                    extractDateFromCell(cells[7]),
                    PRNumberOfCell(Trim(StripTags(cells[3]))))

RowEntry(row) == CellsEntry(row, Elements(row, "td", "/td", 1))

RECURSIVE RowEntries(_)
RowEntries(rows) ==
    IF rows = <<>> THEN <<>> ELSE RowEntry(Head(rows)) \o RowEntries(Tail(rows))

\* the comparator of entries.sort: negative when a goes before b
EntryOrder(a, b) ==
    IF a.rawDate # b.rawDate
    THEN (IF a.rawDate > b.rawDate THEN -1 ELSE 1)       \* compareDesc
    ELSE compareVersions(b.version, a.version)

\* Array.prototype.sort of V8, for an array shorter than 64 elements: the
\* initial run is found (and reversed when strictly descending), then the
\* remaining elements are placed by binary insertion.
\* CountAndMakeRun: the length of the run, elements 1..idx-1 being in it
RECURSIVE CountRun(_, _, _)
CountRun(a, isDescending, idx) ==
    IF idx > Len(a) THEN Len(a)
    ELSE IF isDescending = (EntryOrder(a[idx], a[idx - 1]) < 0)
    THEN CountRun(a, isDescending, idx + 1)
    ELSE idx - 1

Reverse(a) == [i \in 1..Len(a) |-> a[Len(a) + 1 - i]]

MakeRun(a, isDescending, runLength) ==
    IF isDescending
    THEN Reverse(SubSeq(a, 1, runLength)) \o SubSeq(a, runLength + 1, Len(a))
    ELSE a

\* BinaryInsertionSort: where pivot goes among the first right elements
\* (left, right and the result count elements, as the zero-based indices do)
RECURSIVE InsertionPoint(_, _, _, _)
InsertionPoint(a, pivot, left, right) ==
    IF left >= right THEN left
    ELSE IF EntryOrder(pivot, a[left + ((right - left) \div 2) + 1]) < 0
    THEN InsertionPoint(a, pivot, left, left + ((right - left) \div 2))
    ELSE InsertionPoint(a, pivot, left + ((right - left) \div 2) + 1, right)

\* the element after the first start elements moves behind the first left
MoveTo(a, start, left) ==
    SubSeq(a, 1, left) \o <<a[start + 1]>> \o SubSeq(a, left + 1, start)
    \o SubSeq(a, start + 2, Len(a))

RECURSIVE BinaryInsertionSort(_, _)
BinaryInsertionSort(a, start) ==
    IF start >= Len(a) THEN a
    ELSE BinaryInsertionSort(
            MoveTo(a, start, InsertionPoint(a, a[start + 1], 0, start)), start + 1)

SortFrom(a, isDescending, runLength) ==
    BinaryInsertionSort(MakeRun(a, isDescending, runLength), runLength)

SortRun(a, isDescending) == SortFrom(a, isDescending, CountRun(a, isDescending, 3))

SortEntries(es) ==
    IF Len(es) < 2 THEN es ELSE SortRun(es, EntryOrder(es[2], es[1]) < 0)

NoEntry == [version |-> EmptyVersion, releaseDate |-> EmptyDateStr, entries |-> <<>>]

\* the value getLatestEntryFromTable returns for the sorted entries
LatestOf(entries) ==
    IF entries = <<>> THEN NoEntry
    ELSE [version |-> entries[1].version,
          releaseDate |-> entries[1].releaseDate,
          entries |-> entries]

TableEntries(content, tableMatch) ==
    IF tableMatch[1] = 0 THEN <<>>
    ELSE SortEntries(RowEntries(Elements(Inner(content, tableMatch), "tr", "/tr", 1)))

getLatestEntryFromTable(content) == LatestOf(TableEntries(content, TableMatch(content)))

\* ----------------------------------------------------------- pull requests
\* A merged pull request as the GitHub API lists it:
\*   number, merged_at [mo, d, late], merge_commit_sha, head_sha,
\*   title and body (the text the version pattern scans; body <<>> if none),
\*   changelog (the text extractChangelogFromPR takes from the body);
\*   manifest / head_manifest: the version package.json declares at the merge
\*   commit / at the head commit ("" if it declares none);
\*   shape: "pull" for a pull-request object, "untitled" for an object with
\*   the commit fields only, "null" for a value without any of the fields.
NoSha == 0
MergeSha == 1
HeadSha == 2

PullRequest(number, merged_at, manifest, title, body, changelog) ==
    [number |-> number, merged_at |-> merged_at, shape |-> "pull",
     merge_commit_sha |-> MergeSha, head_sha |-> HeadSha,
     manifest |-> manifest, head_manifest |-> EmptyVersion,
     title |-> title, body |-> body, changelog |-> changelog]

MergedInstant(pr) == Instant(pr.merged_at.mo, pr.merged_at.d, pr.merged_at.late)

\* /(?:v|version\s*)?(\d+\.\d+(?:\.\d+)?(?:-[a-zA-Z0-9-]+)?)/i on the text
\* of one version-like word: where the match starts (0: no match) ...
MatchStart(v) ==
    IF \E i \in 1..(Len(v) - 1) :
            v[i].num >= 0 /\ ~v[i].suf /\ ~v[i+1].pre /\ v[i+1].num >= 0
    THEN CHOOSE i \in 1..(Len(v) - 1) :
            /\ v[i].num >= 0 /\ ~v[i].suf /\ ~v[i+1].pre /\ v[i+1].num >= 0
            /\ \A j \in 1..(i-1) :
                ~(v[j].num >= 0 /\ ~v[j].suf /\ ~v[j+1].pre /\ v[j+1].num >= 0)
    ELSE 0

\* (mutant) a capture group that stops after the minor number
MatchedVersionTwoParts(v, i) == <<NumPart(v[i].num), NumPart(v[i+1].num)>>

\* ... and its capture group
MatchedVersion(v, i) ==
    IF ~v[i+1].suf /\ i + 2 <= Len(v) /\ ~v[i+2].pre /\ v[i+2].num >= 0
    THEN <<NumPart(v[i].num), v[i+1], v[i+2]>>
    ELSE <<NumPart(v[i].num), v[i+1]>>

\* text.match(versionRegex): the capture of the first match, "" if none
RECURSIVE VersionIn(_)
VersionAtHead(text, i) ==
    IF i > 0 THEN MatchedVersion(Head(text).v, i) ELSE VersionIn(Tail(text))

VersionIn(text) ==
    IF text = <<>> THEN EmptyVersion
    ELSE VersionAtHead(text, IF Head(text).k = "ver" THEN MatchStart(Head(text).v) ELSE 0)

TitleOrBody(titleMatch, body) ==
    IF titleMatch # EmptyVersion THEN titleMatch ELSE VersionIn(body)

\* (mutant) the body scanned before the title
extractVersionFromPRTextBodyFirst(pr) == TitleOrBody(VersionIn(pr.body), pr.title)

extractVersionFromPRText(pr) == TitleOrBody(VersionIn(pr.title), pr.body)

\* what the two requests of extractVersionAndPRDetails can answer
DetailOutcomes == {"ok", "network error", "status", "not json", "untitled", "null"}
ManifestOutcomes == {"ok", "network error", "404", "status", "not json",
                     "no content", "bad base64", "bad json"}
Fetched(detail, manifest) == [detail |-> detail, manifest |-> manifest]

\* detailedPR after the first request
DetailedPR(pr, detail) ==
    IF detail \in {"untitled", "null"} THEN [pr EXCEPT !.shape = detail] ELSE pr

Sha(pr) == IF pr.merge_commit_sha # NoSha THEN pr.merge_commit_sha ELSE pr.head_sha

\* packageJson.version where the lookup gets that far, "" where it gives up
\* or lands in the catch block
ManifestVersion(detailedPR, manifest) ==
    IF detailedPR.shape = "null" THEN EmptyVersion
    ELSE IF Sha(detailedPR) = NoSha THEN EmptyVersion
    ELSE IF manifest # "ok" THEN EmptyVersion
    ELSE IF Sha(detailedPR) = MergeSha THEN detailedPR.manifest
    ELSE detailedPR.head_manifest

\* the returned value; threw: extractVersionFromPRText raised (no title to
\* scan) and nothing catches it
Extracted(detailedPR, version) ==
    IF version # EmptyVersion
    THEN [threw |-> FALSE, version |-> version, detailedPR |-> detailedPR]
    ELSE IF detailedPR.shape # "pull"
    THEN [threw |-> TRUE, version |-> EmptyVersion, detailedPR |-> detailedPR]
    ELSE [threw |-> FALSE, version |-> extractVersionFromPRText(detailedPR),
          detailedPR |-> detailedPR]

ExtractedFrom(detailedPR, manifest) ==
    Extracted(detailedPR, ManifestVersion(detailedPR, manifest))

\* version of a PR: the manifest's, else the title/body match
extractVersionAndPRDetails(pr, fetched) ==
    ExtractedFrom(DetailedPR(pr, fetched.detail), fetched.manifest)

Developer(pr) == <<Txt(TxtDeveloper)>>

Cell(content) == <<Tag("td")>> \o content \o <<Tag("/td")>>

formatPRForConfluence(pr, version) ==
    LET formattedVersion ==
            IF version # EmptyVersion
            THEN <<Tag("h4"), VerText(version), Tag("/h4")>>
            ELSE <<>>
        formattedDate == <<TimeTag(pr.merged_at.d, pr.merged_at.mo)>>
        prLink == <<Tag("a"), PRRef(pr.number), Tag("/a")>>
    IN  <<NL, Tag("tr")>>
        \o Cell(<<Txt(TxtMinor)>>)
        \o Cell(formattedVersion)
        \o Cell(prLink)
        \o Cell(Developer(pr))
        \o Cell(pr.changelog)
        \o Cell(<<Txt(TxtStatusPill)>>)
        \o Cell(formattedDate)
        \o Cell(<<>>)
        \o <<Tag("/tr")>>

\* ------------------------------------------------------------ table merger
\* (mutant) the first pass without the check by PR number
PotentialNewByDateOnly(pr, latestEntry) ==
    IF latestEntry.releaseDate.fmt = "" THEN TRUE
    ELSE LET latestEntryDate == NativeDate(latestEntry.releaseDate)
         IN  latestEntryDate # InvalidDate /\ MergedInstant(pr) > latestEntryDate

\* first pass: by PR number and by date
PotentialNew(pr, latestEntry) ==
    LET isPRAlreadyInTable ==
            \E i \in 1..Len(latestEntry.entries) :
                latestEntry.entries[i].prNumber = pr.number
    IN  IF isPRAlreadyInTable THEN FALSE
        ELSE IF latestEntry.releaseDate.fmt = "" THEN TRUE
        ELSE LET latestEntryDate == NativeDate(latestEntry.releaseDate)
             IN  latestEntryDate # InvalidDate /\ MergedInstant(pr) > latestEntryDate

\* second pass: by version
Filtered(r, latestEntry, rest) ==
    IF r.threw THEN rest
    ELSE IF r.version # EmptyVersion
         THEN IF latestEntry.version = EmptyVersion
              THEN <<[pr |-> r.detailedPR, version |-> r.version]>> \o rest
              ELSE IF isNewerVersion(r.version, latestEntry.version)
                   THEN <<[pr |-> r.detailedPR, version |-> r.version]>> \o rest
                   ELSE rest
         ELSE <<[pr |-> r.detailedPR, version |-> r.version]>> \o rest

\* (mutant) the second pass with a head that follows the admitted versions
MovedHead(r, latestEntry) ==
    IF /\ ~r.threw
       /\ r.version # EmptyVersion
       /\ \/ latestEntry.version = EmptyVersion
          \/ isNewerVersion(r.version, latestEntry.version)
    THEN [latestEntry EXCEPT !.version = r.version]
    ELSE latestEntry

RECURSIVE VersionFilterMovingHead(_, _, _)
VersionFilterMovingHead(prs, latestEntry, fetched) ==
    IF prs = <<>> THEN <<>>
    ELSE Filtered(extractVersionAndPRDetails(Head(prs), fetched[Head(prs).number]),
                  latestEntry,
                  VersionFilterMovingHead(
                      Tail(prs),
                      MovedHead(extractVersionAndPRDetails(Head(prs), fetched[Head(prs).number]),
                                latestEntry),
                      fetched))

RECURSIVE VersionFilter(_, _, _)
VersionFilter(prs, latestEntry, fetched) ==
    IF prs = <<>> THEN <<>>
    ELSE Filtered(extractVersionAndPRDetails(Head(prs), fetched[Head(prs).number]),
                  latestEntry,
                  VersionFilter(Tail(prs), latestEntry, fetched))

PotentialNewPRs(prs, latestEntry) ==
    SelectSeq(prs, LAMBDA pr : PotentialNew(pr, latestEntry))

FilterBoth(prs, latestEntry, fetched) ==
    VersionFilter(PotentialNewPRs(prs, latestEntry), latestEntry, fetched)

NewPRsWithDetails(existingContent, prs, fetched) ==
    FilterBoth(prs, getLatestEntryFromTable(existingContent), fetched)

\* the call rejects: a version extraction raised, or formatPRForConfluence
\* did on an admitted object that has no user
ExtractionThrows(potentialNewPRs, fetched) ==
    \E i \in 1..Len(potentialNewPRs) :
        extractVersionAndPRDetails(potentialNewPRs[i],
                                   fetched[potentialNewPRs[i].number]).threw

FormatThrows(newPRsWithDetails) ==
    \E i \in 1..Len(newPRsWithDetails) : newPRsWithDetails[i].pr.shape # "pull"

ThrowsOn(potentialNewPRs, latestEntry, fetched) ==
    \/ ExtractionThrows(potentialNewPRs, fetched)
    \/ FormatThrows(VersionFilter(potentialNewPRs, latestEntry, fetched))

ThrowsFor(prs, latestEntry, fetched) ==
    ThrowsOn(PotentialNewPRs(prs, latestEntry), latestEntry, fetched)

appendPRsToContentThrows(existingContent, prs, fetched) ==
    ThrowsFor(prs, getLatestEntryFromTable(existingContent), fetched)

\* the replacement patterns String.prototype.replace expands in a
\* replacement string; the pattern has no capture group, so $1 stays as is
RECURSIVE Expand(_, _, _, _)
Expand(replacement, matched, before, after) ==
    IF replacement = <<>> THEN <<>>
    ELSE LET t == Head(replacement)
             e == IF t.k = "$&" THEN matched
                  ELSE IF t.k = "$`" THEN before
                  ELSE IF t.k = "$'" THEN after
                  ELSE IF t.k = "$$" THEN <<Txt(TxtDollar)>>
                  ELSE <<t>>
         IN  e \o Expand(Tail(replacement), matched, before, after)

\* existingContent.replace(/<\/table>/i, replacement)
ReplaceAt(content, c, replacement) ==
    IF c = 0 THEN content
    ELSE SubSeq(content, 1, c - 1)
         \o Expand(replacement, <<content[c]>>, SubSeq(content, 1, c - 1),
                   SubSeq(content, c + 1, Len(content)))
         \o SubSeq(content, c + 1, Len(content))

ReplaceTableClose(content, replacement) ==
    ReplaceAt(content, IndexFrom(content, "/table", 1), replacement)

TableHeader ==
    <<NL, Tag("h2"), Txt(TxtChangelogHeading), Tag("/h2"), NL, Tag("table"), NL, Tag("tr")>>
    \o Flatten([c \in 1..NumColumns |-> <<Tag("th"), Tok("txt", 0, c, <<>>), Tag("/th")>>])
    \o <<Tag("/tr")>>

FormatAll(items) ==
    [i \in 1..Len(items) |-> formatPRForConfluence(items[i].pr, items[i].version)]

\* the table exists: rows before its closing tag; else a new table
InsertRows(existingContent, prRows) ==
    IF TableMatch(existingContent)[1] # 0
    THEN ReplaceTableClose(existingContent, prRows \o <<NL, Tag("/table")>>)
    ELSE existingContent \o <<NL>> \o TableHeader \o prRows \o <<Tag("/table")>>

\* (mutant) the merger without its early returns: the table is rewritten
\* even when there is no row to add
MergeAlways(existingContent, prs, newPRsWithDetails) ==
    InsertRows(existingContent, JoinNL(FormatAll(newPRsWithDetails)))

\* appendPRsToContent once the candidates are filtered
Merge(existingContent, prs, newPRsWithDetails) ==
    IF prs = <<>> THEN existingContent
    ELSE IF newPRsWithDetails = <<>> THEN existingContent
    ELSE InsertRows(existingContent, JoinNL(FormatAll(newPRsWithDetails)))

appendPRsToContent(existingContent, prs, fetched) ==
    Merge(existingContent, prs, NewPRsWithDetails(existingContent, prs, fetched))

\* ----------------------------------------------------------------- passes
NoTimestamp == -1

\* the settings a pass needs; a setting is in the set when storage holds a
\* non-empty value for it
RequiredSettings == {"repoOwner", "repoName", "branchName", "githubToken",
                     "confluenceUrl", "pageId", "confluenceEmail", "confluenceToken"}

\* (mutant) the completeness check without the branch name
isSettingsCompleteButBranch(s) ==
    /\ "repoOwner" \in s
    /\ "repoName" \in s
    /\ "githubToken" \in s
    /\ "confluenceUrl" \in s
    /\ "pageId" \in s
    /\ "confluenceEmail" \in s
    /\ "confluenceToken" \in s

isSettingsComplete(s) ==
    /\ "repoOwner" \in s
    /\ "repoName" \in s
    /\ "branchName" \in s
    /\ "githubToken" \in s
    /\ "confluenceUrl" \in s
    /\ "pageId" \in s
    /\ "confluenceEmail" \in s
    /\ "confluenceToken" \in s

NoPass == [outcome |-> "none", prs |-> <<>>, bodyIn |-> <<>>, bodyOut |-> <<>>,
           admitted |-> <<>>, count |-> 0, requests |-> {}]

Version2(a, b) == <<NumPart(a), NumPart(b)>>

\* what the pull requests of a run look like
PRTimes == {[mo |-> 1, d |-> 1, late |-> 1],
            [mo |-> 1, d |-> DaysPerMonth, late |-> 1],
            [mo |-> MonthsPerYear, d |-> 2, late |-> 1]}
PlainTitle == <<Txt(TxtPlain)>>
\* "... v0.1"
VersionedTitle == <<Txt(TxtPlain), VerText(<<PrefixedPart(0), NumPart(1)>>)>>
\* <<manifest version, title, body, changelog text>>
PRKinds == {<<EmptyVersion, PlainTitle, <<>>, <<Txt(TxtPlain)>> >>,
            <<Version2(1, 0), PlainTitle, <<>>, <<Txt(TxtPlain)>> >>,
            <<EmptyVersion, VersionedTitle, <<>>, <<Txt(TxtPlain)>> >>,
            <<Version2(1, 0), PlainTitle, <<>>, <<Tok("$&", 0, 0, <<>>)>> >>}

\* the answers GitHub gives to the two requests of a version extraction
PassFetches == {Fetched("ok", "ok"), Fetched("ok", "404"), Fetched("null", "ok")}

\* rows a page holds before the first pass, written by hand
ExistingRow(version, prNumber, dateCell) ==
    <<NL, Tag("tr")>>
    \o Cell(<<Txt(TxtMinor)>>)
    \o Cell(<<VerText(version)>>)
    \o Cell(IF prNumber = NoPR THEN <<>> ELSE <<PRRef(prNumber)>>)
    \o Cell(<<Txt(TxtDeveloper)>>)
    \o Cell(<<Txt(TxtPlain)>>)
    \o Cell(<<Txt(TxtStatusPill)>>)
    \o Cell(dateCell)
    \o Cell(<<>>)
    \o <<Tag("/tr")>>

\* a date cell in each textual form: D/M/Y, time element, Y-M-D
DateCells == {<<SlashDate(1, 1)>>, <<SlashDate(DaysPerMonth, 1)>>,
              <<TimeTag(2, 1)>>, <<TimeTag(1, 2)>>, <<IsoDate(2, 1)>>}

ExistingRows ==
    {ExistingRow(Version2(0, 1), n, dc) :
        n \in {NoPR, 1},
        dc \in {<<SlashDate(1, 1)>>, <<SlashDate(DaysPerMonth, 1)>>, <<TimeTag(2, 1)>>}}

DatedRows ==
    {ExistingRow(Version2(0, 1), n, dc) : n \in {NoPR, 1}, dc \in DateCells}

PageWithTable(rows) ==
    <<Txt(TxtIntro)>> \o TableHeader \o Flatten(rows) \o <<NL, Tag("/table"), Txt(TxtOutro)>>

InitialBodies ==
    {<<Txt(TxtIntro)>>} \cup {PageWithTable(rows) : rows \in SeqsUpTo(ExistingRows, MaxRows)}

DatedBodies ==
    {<<Txt(TxtIntro)>>} \cup {PageWithTable(rows) : rows \in SeqsUpTo(DatedRows, MaxRows)}

\* the storage holds every setting, or every setting but one
SettingsChoices ==
    {RequiredSettings} \cup {RequiredSettings \ {x} : x \in RequiredSettings}

\* the variables of the function harnesses, at rest
NoCandidate == PullRequest(0, [mo |-> 1, d |-> 1, late |-> 0], EmptyVersion, <<>>, <<>>, <<>>)
NoExtraction == [threw |-> FALSE, version |-> EmptyVersion, detailedPR |-> NoCandidate]
NotParsed == -2

HarnessIdle ==
    /\ hpc = "idle"
    /\ dateInput = EmptyDateStr
    /\ dateOutput = NotParsed
    /\ parsedTable = NoEntry
    /\ candidate = NoCandidate
    /\ response = Fetched("ok", "ok")
    /\ extraction = NoExtraction

VersionsIdle ==
    /\ version1 = EmptyVersion /\ version2 = EmptyVersion /\ version3 = EmptyVersion
    /\ vpc = "input"
    /\ cmp12 = 0 /\ cmp21 = 0 /\ cmp23 = 0 /\ cmp13 = 0 /\ cmp11 = 0
    /\ newer12 = FALSE /\ newer21 = FALSE

PassesIdle ==
    /\ github = <<>>
    /\ page = [body |-> <<>>, version |-> 1]
    /\ settings = RequiredSettings
    /\ answers = <<>>
    /\ lastChecked = NoTimestamp
    /\ passes = 0
    /\ lastPass = NoPass
    /\ prevPass = NoPass

\* the fields of the options form
FormFields == {"githubToken", "repoOwner", "repoName", "confluenceUrl",
               "confluenceEmail", "confluenceToken", "pageId"}

OptionsIdle ==
    /\ form = [field \in FormFields |-> ""]
    /\ saved = FALSE
    /\ stored0 = {}

\* what starts a pass: the hourly alarm, a CHECK_PRS message
Triggers == {"alarm", "message"}

NoRead == [body |-> <<>>, version |-> 0]
NoError == [text |-> "", status |-> ""]

\* a pass that has not started
IdleRun == [pc |-> "idle", read |-> NoRead, content |-> <<>>, error |-> NoError,
            failedAt |-> "", reads |-> 0, writes |-> 0, sent |-> 0,
            wrotePage |-> FALSE, wroteStamp |-> FALSE]

NoMessage == [action |-> "", pc |-> "none"]

TriggersIdle ==
    /\ run = [t \in Triggers |-> IdleRun]
    /\ message = NoMessage
    /\ responses = <<>>

UiIdle == OptionsIdle /\ TriggersIdle

InitPasses ==
    /\ github = <<>>
    /\ page \in {[body |-> b, version |-> 1] : b \in InitialBodies}
    /\ settings \in SettingsChoices
    /\ answers = <<>>
    /\ lastChecked = NoTimestamp
    /\ passes = 0
    /\ lastPass = NoPass
    /\ prevPass = NoPass

\* the next pull request is merged into the branch; the listing is most
\* recently updated first
MergePullRequest ==
    /\ Len(github) < MaxPRs
    /\ \E merged_at \in PRTimes, kind \in PRKinds :
        github' = <<PullRequest(Len(github) + 1, merged_at,
                                kind[1], kind[2], kind[3], kind[4])>>
                  \o github
    /\ UNCHANGED <<page, settings, answers, lastChecked, passes, lastPass, prevPass>>

Numbers(prs) == {prs[i].number : i \in 1..Len(prs)}

RECURSIVE LatestMergeTime(_, _)
LatestMergeTime(prs, latest) ==
    IF prs = <<>> THEN latest
    ELSE LatestMergeTime(Tail(prs), Max(latest, MergedInstant(Head(prs))))

Record(outcome, prs, bodyIn, bodyOut, admitted, count, requests) ==
    /\ passes' = passes + 1
    /\ prevPass' = lastPass
    /\ lastPass' = [outcome |-> outcome, prs |-> prs, bodyIn |-> bodyIn,
                    bodyOut |-> bodyOut, admitted |-> admitted,
                    count |-> count, requests |-> requests]

Failed(outcome, requests) ==
    /\ Record(outcome, <<>>, <<>>, <<>>, <<>>, 0, requests)
    /\ UNCHANGED <<github, page, settings, answers, lastChecked>>

\* checkAndLogMergedPRs: a required setting is missing
PassIncompleteSettings ==
    /\ passes < MaxPasses
    /\ ~isSettingsComplete(settings)
    /\ Failed("incomplete settings", {})

\* checkAndLogMergedPRs: fetchMergedPRs throws
PassListingFails ==
    /\ passes < MaxPasses
    /\ isSettingsComplete(settings)
    /\ Failed("listing failed", {"github"})

\* checkAndLogMergedPRs: no merged pull request
PassNothingMerged ==
    /\ passes < MaxPasses
    /\ isSettingsComplete(settings)
    /\ github = <<>>
    /\ Failed("ok", {"github"})

\* checkAndLogMergedPRs: fetchConfluencePage throws
PassPageReadFails ==
    /\ passes < MaxPasses
    /\ isSettingsComplete(settings)
    /\ github # <<>>
    /\ Failed("page read failed", {"github", "confluence"})

\* checkAndLogMergedPRs: appendPRsToContent rejects
PassExtractionFails ==
    /\ passes < MaxPasses
    /\ isSettingsComplete(settings)
    /\ github # <<>>
    /\ \E fetched \in [Numbers(github) -> PassFetches] :
        appendPRsToContentThrows(page.body, github, fetched)
    /\ Failed("extraction failed", {"github", "confluence"})

\* checkAndLogMergedPRs: updateConfluencePage throws
PassWriteFails ==
    /\ passes < MaxPasses
    /\ isSettingsComplete(settings)
    /\ github # <<>>
    /\ \E fetched \in [Numbers(github) -> PassFetches] :
        ~appendPRsToContentThrows(page.body, github, fetched)
    /\ Failed("page write failed", {"github", "confluence"})

\* checkAndLogMergedPRs: every request is answered and the page is written
Update(updatedContent, admitted) ==
    /\ page' = [body |-> updatedContent, version |-> page.version + 1]
    /\ Record("ok", github, page.body, updatedContent, admitted,
              Len(github), {"github", "confluence"})
    /\ lastChecked' = LatestMergeTime(github, 0)
    /\ UNCHANGED <<github, settings, answers>>

PassSucceeds ==
    /\ passes < MaxPasses
    /\ isSettingsComplete(settings)
    /\ github # <<>>
    /\ \E fetched \in [Numbers(github) -> PassFetches] :
        /\ ~appendPRsToContentThrows(page.body, github, fetched)
        /\ Update(appendPRsToContent(page.body, github, fetched),
                  NewPRsWithDetails(page.body, github, fetched))

checkAndLogMergedPRs ==
    \/ PassIncompleteSettings
    \/ PassListingFails
    \/ PassNothingMerged
    \/ PassPageReadFails
    \/ PassExtractionFails
    \/ PassWriteFails
    \/ PassSucceeds

Init ==
    /\ InitPasses
    /\ VersionsIdle
    /\ UiIdle
    /\ HarnessIdle

Next ==
    \/ MergePullRequest /\ UNCHANGED <<verVars, harnessVars, uiVars>>
    \/ checkAndLogMergedPRs /\ UNCHANGED <<verVars, harnessVars, uiVars>>

Spec == Init /\ [][Next]_vars

\* ------------------------------------------------ table merger harness
\* appendPRsToContent called directly, on the body the previous call
\* returned, with a fixed list of pull requests (possibly empty)
PRsNumbered(k) ==
    {PullRequest(n, merged_at, kind[1], kind[2], kind[3], kind[4]) :
        n \in 1..k, merged_at \in PRTimes, kind \in PRKinds}

PRLists ==
    UNION {{l \in [1..k -> PRsNumbered(k)] : \A i \in 1..k : l[i].number = k - i + 1} :
            k \in 0..MaxPRs}

\* the cases the specification works through: a table whose head has
\* version 1.2.0 meets one candidate of version 1.1.9 or 1.3.0; a page
\* without table meets PR 42, "Release v1.2.3: add x"
HeadBodies == {PageWithTable(<<ExistingRow(V(1, 2, 0), NoPR, dc)>>) : dc \in DateCells}
HeadCandidates ==
    {<<PullRequest(1, merged_at, manifest, PlainTitle, <<>>, <<Txt(TxtPlain)>>)>> :
        merged_at \in PRTimes, manifest \in {V(1, 1, 9), V(1, 3, 0)}}

TxtRelease == 9      \* "Release"
TxtAddX == 10        \* ": add x"
ReleaseTitle ==
    <<Txt(TxtRelease), VerText(<<PrefixedPart(1), NumPart(2), NumPart(3)>>), Txt(TxtAddX)>>
ReleaseCandidates ==
    {<<PullRequest(42, merged_at, manifest, ReleaseTitle, <<>>, <<Txt(TxtPlain)>>)>> :
        merged_at \in PRTimes, manifest \in {EmptyVersion, V(2, 0, 0)}}

InitMerge ==
    /\ \/ /\ github \in PRLists
          /\ page \in {[body |-> b, version |-> 1] : b \in DatedBodies}
       \/ /\ github \in HeadCandidates
          /\ page \in {[body |-> b, version |-> 1] : b \in HeadBodies}
       \/ /\ github \in ReleaseCandidates
          /\ page = [body |-> <<Txt(TxtIntro)>>, version |-> 1]
    /\ settings = RequiredSettings
    /\ answers = <<>>
    /\ lastChecked = NoTimestamp
    /\ passes = 0
    /\ lastPass = NoPass
    /\ prevPass = NoPass
    /\ VersionsIdle
    /\ UiIdle
    /\ HarnessIdle

Called(result, admitted, fetched) ==
    /\ page' = [page EXCEPT !.body = result]
    /\ answers' = fetched
    /\ Record("ok", github, page.body, result, admitted, Len(admitted), {})
    /\ UNCHANGED <<github, settings, lastChecked>>

AppendReturns ==
    /\ passes < MaxCalls
    /\ \E fetched \in [Numbers(github) -> PassFetches] :
        /\ ~appendPRsToContentThrows(page.body, github, fetched)
        /\ Called(appendPRsToContent(page.body, github, fetched),
                  NewPRsWithDetails(page.body, github, fetched), fetched)

AppendThrows ==
    /\ passes < MaxCalls
    /\ \E fetched \in [Numbers(github) -> PassFetches] :
        /\ appendPRsToContentThrows(page.body, github, fetched)
        /\ answers' = fetched
        /\ Record("threw", github, page.body, page.body, <<>>, 0, {})
    /\ UNCHANGED <<github, page, settings, lastChecked>>

NextMerge ==
    \/ AppendReturns /\ UNCHANGED <<verVars, harnessVars, uiVars>>
    \/ AppendThrows /\ UNCHANGED <<verVars, harnessVars, uiVars>>

SpecMerge == InitMerge /\ [][NextMerge]_vars

\* ---------------------------------------------- version comparator harness
\* Either a pair from the full set of generated versions, or a triple from
\* the short (mixed) ones.
InitVersions ==
    /\ \/ /\ version1 \in VersionStrings
          /\ version2 \in VersionStrings
          /\ version3 = EmptyVersion
       \/ /\ version1 \in TripleVersions
          /\ version2 \in TripleVersions
          /\ version3 \in TripleVersions
    /\ vpc = "input"
    /\ cmp12 = 0 /\ cmp21 = 0 /\ cmp23 = 0 /\ cmp13 = 0 /\ cmp11 = 0
    /\ newer12 = FALSE /\ newer21 = FALSE
    /\ PassesIdle
    /\ HarnessIdle
    /\ UiIdle

CompareStep ==
    /\ vpc = "input"
    /\ vpc' = "compared"
    /\ cmp12' = compareVersions(version1, version2)
    /\ cmp21' = compareVersions(version2, version1)
    /\ cmp23' = compareVersions(version2, version3)
    /\ cmp13' = compareVersions(version1, version3)
    /\ cmp11' = compareVersions(version1, version1)
    /\ newer12' = isNewerVersion(version1, version2)
    /\ newer21' = isNewerVersion(version2, version1)
    /\ UNCHANGED <<version1, version2, version3>>
    /\ UNCHANGED <<passVars, harnessVars, uiVars>>

NextVersions == CompareStep

SpecVersions == InitVersions /\ [][NextVersions]_vars

\* ------------------------------------------------------ date parser harness
MaxDateField == 4    \* largest day or month number of a generated date string

DateStrings ==
    {DateStr(fmt, a, b) : fmt \in {"slash", "dash", "iso", "long"},
                          a \in 0..MaxDateField, b \in 0..MaxDateField}
    \cup {EmptyDateStr, JunkDateStr}

InitDates ==
    /\ hpc = "input"
    /\ dateInput \in DateStrings
    /\ dateOutput = NotParsed
    /\ parsedTable = NoEntry
    /\ candidate = NoCandidate
    /\ response = Fetched("ok", "ok")
    /\ extraction = NoExtraction
    /\ VersionsIdle
    /\ UiIdle
    /\ PassesIdle

ParseDateStep ==
    /\ hpc = "input"
    /\ hpc' = "done"
    /\ dateOutput' = parseTableDate(dateInput)
    /\ UNCHANGED <<dateInput, parsedTable, candidate, response, extraction>>
    /\ UNCHANGED <<verVars, passVars, uiVars>>

NextDates == ParseDateStep

SpecDates == InitDates /\ [][NextDates]_vars

\* ----------------------------------------------------- table parser harness
MaxTableRows == 3    \* most data rows of a parsed table

TableVersions == {<<NumPart(0)>>, <<TextPart>>, <<PrefixedPart(1)>>, Version2(0, 1)}
TableRows ==
    {ExistingRow(v, NoPR, dc) : v \in TableVersions,
                                dc \in {<<SlashDate(1, 1)>>, <<IsoDate(2, 1)>>}}
TableBodies == {PageWithTable(rows) : rows \in SeqsUpTo(TableRows, MaxTableRows)}

InitTable ==
    /\ hpc = "input"
    /\ page \in {[body |-> b, version |-> 1] : b \in TableBodies}
    /\ parsedTable = NoEntry
    /\ dateInput = EmptyDateStr
    /\ dateOutput = NotParsed
    /\ candidate = NoCandidate
    /\ response = Fetched("ok", "ok")
    /\ extraction = NoExtraction
    /\ github = <<>>
    /\ settings = RequiredSettings
    /\ answers = <<>>
    /\ lastChecked = NoTimestamp
    /\ passes = 0
    /\ lastPass = NoPass
    /\ prevPass = NoPass
    /\ VersionsIdle
    /\ UiIdle

ParseTableStep ==
    /\ hpc = "input"
    /\ hpc' = "done"
    /\ parsedTable' = getLatestEntryFromTable(page.body)
    /\ UNCHANGED <<dateInput, dateOutput, candidate, response, extraction>>
    /\ UNCHANGED <<verVars, passVars, uiVars>>

NextTable == ParseTableStep

SpecTable == InitTable /\ [][NextTable]_vars

\* ------------------------------------------------ version extraction harness
\* "... 1.1"
VersionedBody == <<Txt(TxtPlain), VerText(Version2(1, 1))>>

Candidates ==
    {[PullRequest(1, [mo |-> 1, d |-> 1, late |-> 1], manifest, title, body, <<Txt(TxtPlain)>>)
        EXCEPT !.merge_commit_sha = merge_sha, !.head_sha = head_sha,
               !.head_manifest = head_manifest] :
        manifest \in {EmptyVersion, Version2(1, 0)},
        head_manifest \in {EmptyVersion, Version2(0, 0)},
        title \in {PlainTitle, VersionedTitle},
        body \in {<<>>, <<Txt(TxtPlain)>>, VersionedBody},
        merge_sha \in {NoSha, MergeSha},
        head_sha \in {NoSha, HeadSha}}

InitExtract ==
    /\ hpc = "input"
    /\ candidate \in Candidates
    /\ response \in {Fetched(d, m) : d \in DetailOutcomes, m \in ManifestOutcomes}
    /\ extraction = NoExtraction
    /\ dateInput = EmptyDateStr
    /\ dateOutput = NotParsed
    /\ parsedTable = NoEntry
    /\ VersionsIdle
    /\ UiIdle
    /\ PassesIdle

ExtractStep ==
    /\ hpc = "input"
    /\ hpc' = "done"
    /\ extraction' = extractVersionAndPRDetails(candidate, response)
    /\ UNCHANGED <<dateInput, dateOutput, parsedTable, candidate, response>>
    /\ UNCHANGED <<verVars, passVars, uiVars>>

NextExtract == ExtractStep

SpecExtract == InitExtract /\ [][NextExtract]_vars

\* ------------------------------------------------ version comparator claims
\* C6: isNewerVersion("", "1.0.0") is false, isNewerVersion("1.0.0", "") is
\* true and isNewerVersion("", "") is false.
C6_EmptyVersionPrecedence ==
    vpc = "compared" =>
        /\ (version1 = EmptyVersion /\ version2 = V(1, 0, 0)) => ~newer12
        /\ (version1 = V(1, 0, 0) /\ version2 = EmptyVersion) => newer12
        /\ (version1 = EmptyVersion /\ version2 = EmptyVersion) => ~newer12

\* the i-th component of a numeric version, a missing one counting as 0
Component(v, i) == IF i <= Len(v) THEN v[i].num ELSE 0

Differs(a, b) == \E i \in 1..Max(Len(a), Len(b)) : Component(a, i) # Component(b, i)

FirstDiffering(a, b) ==
    CHOOSE i \in 1..Max(Len(a), Len(b)) :
        /\ Component(a, i) # Component(b, i)
        /\ \A j \in 1..(i-1) : Component(a, j) = Component(b, j)

GreaterAtFirstDiffering(a, b) ==
    Differs(a, b) /\ Component(a, FirstDiffering(a, b)) > Component(b, FirstDiffering(a, b))

\* C7: for numeric versions a, b of any number of components, a greater at
\* the first differing component (missing trailing components are 0) gives
\* isNewerVersion(a,b) and not isNewerVersion(b,a); equal versions are
\* mutually not newer.
C7_VersionMonotonicity ==
    (vpc = "compared" /\ version1 \in NumericVersions /\ version2 \in NumericVersions) =>
        /\ GreaterAtFirstDiffering(version1, version2) => (newer12 /\ ~newer21)
        /\ ~Differs(version1, version2) => (~newer12 /\ ~newer21)

Sign(x) == IF x > 0 THEN 1 ELSE IF x < 0 THEN -1 ELSE 0

\* C8: compareVersions is reflexive, antisymmetric and transitive over all
\* version strings, semver-coercible or not.
C8_ConsistentOrder ==
    vpc = "compared" =>
        /\ cmp11 = 0
        /\ Sign(cmp12) = -Sign(cmp21)
        /\ (cmp12 >= 0 /\ cmp23 >= 0) => cmp13 >= 0

NoNumericComponent(v) == \A i \in 1..Len(v) : v[i].num < 0

\* C9: an empty version, or one with no numeric component, compares
\* strictly below every parseable version, "0.0.0" included.
C9_UnparseableStrictlyOldest ==
    (vpc = "compared" /\ NoNumericComponent(version1) /\ version2 \in NumericVersions) =>
        cmp12 < 0

\* ------------------------------------------------------------ pass claims
Range(f) == {f[i] : i \in 1..Len(f)}

\* the last two passes both completed, the second on the same list of
\* pull requests and on the body the first one wrote
RanTwice ==
    /\ prevPass.outcome = "ok" /\ lastPass.outcome = "ok"
    /\ lastPass.prs # <<>>
    /\ lastPass.prs = prevPass.prs
    /\ lastPass.bodyIn = prevPass.bodyOut

\* C1: when the full pass runs twice in succession on the same merged PRs,
\* the second on the body the first wrote, the second appends no row (also
\* for a PR without extractable version).
C1_PassIdempotent ==
    RanTwice => (lastPass.admitted = <<>> /\ lastPass.bodyOut = lastPass.bodyIn)

\* C2: the count a pass returns is the number of admitted candidates; the
\* second of two passes in immediate succession returns 0.
C2_CountIsAdmitted ==
    /\ lastPass.outcome = "ok" => lastPass.count = Len(lastPass.admitted)
    /\ RanTwice => lastPass.count = 0

\* ---------------------------------------------------------- merger claims
ParsedNumbers(content) ==
    {e.prNumber : e \in Range(getLatestEntryFromTable(content).entries)} \ {NoPR}

AdmittedNumbers(pass) == {item.pr.number : item \in Range(pass.admitted)}

\* C3: a candidate whose number is the PR number of an entry parsed from the
\* existing table is never admitted, whatever its version and merge date.
C3_DuplicateSuppression ==
    lastPass.outcome = "ok" =>
        \A pr \in Range(lastPass.prs) :
            pr.number \in ParsedNumbers(lastPass.bodyIn)
                => pr.number \notin AdmittedNumbers(lastPass)

\* a candidate already in the table is dropped while another one is admitted
C3_Witness ==
    /\ lastPass.outcome = "ok"
    /\ \E pr \in Range(lastPass.prs) : pr.number \in ParsedNumbers(lastPass.bodyIn)
    /\ lastPass.admitted # <<>>

\* C4: with a table in the document and at least one admitted PR, the output
\* is the input with the new rows inserted immediately before the closing
\* tag of the table; everything else is unchanged.
C4_DocumentPreserved ==
    (/\ lastPass.outcome = "ok"
     /\ TableMatch(lastPass.bodyIn)[1] # 0
     /\ lastPass.admitted # <<>>) =>
        LET close == TableMatch(lastPass.bodyIn)[2]
        IN  lastPass.bodyOut =
                SubSeq(lastPass.bodyIn, 1, close - 1)
                \o JoinNL(FormatAll(lastPass.admitted)) \o <<NL>>
                \o SubSeq(lastPass.bodyIn, close, Len(lastPass.bodyIn))

\* C5: appendPRsToContent with an empty PR list, or with a list of which no
\* candidate is admitted, returns the input document unchanged.
C5_NoOpMerge ==
    (lastPass.outcome = "ok" /\ lastPass.admitted = <<>>) =>
        lastPass.bodyOut = lastPass.bodyIn

\* a non-empty list meets a table and no candidate is admitted
C5_Witness ==
    /\ lastPass.outcome = "ok"
    /\ lastPass.prs # <<>>
    /\ lastPass.admitted = <<>>
    /\ TableMatch(lastPass.bodyIn)[1] # 0
    /\ lastPass.bodyOut = lastPass.bodyIn

\* C10: every PR formatted with its derived version and merged into a
\* document is parsed back as an entry with the same PR number and a version
\* that compares equal to the one it was formatted with.
C10_RoundTrip ==
    lastPass.outcome = "ok" =>
        \A item \in Range(lastPass.admitted) :
            \E e \in Range(getLatestEntryFromTable(lastPass.bodyOut).entries) :
                /\ e.prNumber = item.pr.number
                /\ compareVersions(e.version, item.version) = 0

\* ------------------------------------------------------ admission claims
\* the head the merger works against during the last call
HeadOf(pass) == getLatestEntryFromTable(pass.bodyIn)

\* the version the second pass extracted for a candidate of the last call
ExtractedVersion(pr) == extractVersionAndPRDetails(pr, answers[pr.number]).version

\* C11: when the table has a head entry, no candidate merged at or before the
\* head's release instant (the instant parsed from the head row's date cell,
\* by which the entries are sorted) is admitted, and the instant the first
\* pass compares with is that same instant.
C11_DateFilter ==
    (lastPass.outcome = "ok" /\ HeadOf(lastPass).entries # <<>>) =>
        /\ \A item \in Range(lastPass.admitted) :
            MergedInstant(item.pr) > HeadOf(lastPass).entries[1].rawDate
        /\ NativeDate(HeadOf(lastPass).releaseDate) = HeadOf(lastPass).entries[1].rawDate

\* C12: a candidate that survived the first pass and has a non-empty version
\* is admitted iff the table has no head version or the version compares
\* newer than the head's; with head version 1.2.0 a candidate of version
\* 1.1.9 is not admitted and a new candidate of version 1.3.0 merged after
\* the head's release date is admitted.
C12_VersionRule ==
    lastPass.outcome = "ok" =>
        \A pr \in Range(lastPass.prs) :
            /\ (PotentialNew(pr, HeadOf(lastPass)) /\ ExtractedVersion(pr) # EmptyVersion) =>
                (pr.number \in AdmittedNumbers(lastPass)
                    <=> \/ HeadOf(lastPass).version = EmptyVersion
                        \/ compareVersions(ExtractedVersion(pr), HeadOf(lastPass).version) > 0)
            /\ (HeadOf(lastPass).version = V(1, 2, 0) /\ ExtractedVersion(pr) = V(1, 1, 9)) =>
                pr.number \notin AdmittedNumbers(lastPass)
            /\ (/\ HeadOf(lastPass).version = V(1, 2, 0)
                /\ ExtractedVersion(pr) = V(1, 3, 0)
                /\ pr.number \notin ParsedNumbers(lastPass.bodyIn)
                /\ MergedInstant(pr) > HeadOf(lastPass).entries[1].rawDate) =>
                pr.number \in AdmittedNumbers(lastPass)

\* C13: of two candidates that are not in the table and have no extractable
\* version, one merged before the head's release date and one after it,
\* exactly the later one is admitted, in whatever form the head row's date
\* cell is written.
C13_VersionlessByDate ==
    (lastPass.outcome = "ok" /\ HeadOf(lastPass).entries # <<>>) =>
        \A early, late \in Range(lastPass.prs) :
            (/\ early.number \notin ParsedNumbers(lastPass.bodyIn)
             /\ late.number \notin ParsedNumbers(lastPass.bodyIn)
             /\ ExtractedVersion(early) = EmptyVersion
             /\ ExtractedVersion(late) = EmptyVersion
             /\ MergedInstant(early) < HeadOf(lastPass).entries[1].rawDate
             /\ MergedInstant(late) > HeadOf(lastPass).entries[1].rawDate) =>
                /\ late.number \in AdmittedNumbers(lastPass)
                /\ early.number \notin AdmittedNumbers(lastPass)

\* C14: the head is computed once from the pre-existing document, so the
\* decision for each candidate is the one it gets when it is the only
\* candidate, whatever else is in the list and in whatever order.
C14_FrozenHead ==
    lastPass.outcome = "ok" =>
        \A pr \in Range(lastPass.prs) :
            pr.number \in AdmittedNumbers(lastPass)
                <=> NewPRsWithDetails(lastPass.bodyIn, <<pr>>, answers) # <<>>

\* two candidates with versions are both admitted in one call
C14_Witness ==
    /\ lastPass.outcome = "ok"
    /\ Len(lastPass.prs) = 2
    /\ Len(lastPass.admitted) = 2
    /\ \A item \in Range(lastPass.admitted) : item.version # EmptyVersion
    /\ lastPass.admitted[1].version # lastPass.admitted[2].version

\* ------------------------------------------------- table synthesis claims
\* what the last call put behind the input document
Appended(pass) == SubSeq(pass.bodyOut, Len(pass.bodyIn) + 1, Len(pass.bodyOut))

Count(doc, k) == Cardinality({x \in 1..Len(doc) : doc[x].k = k})

IsHeaderRow(row) ==
    /\ Len(Elements(row, "th", "/th", 1)) = NumColumns
    /\ Count(row, "td") = 0

DataRows(doc) ==
    SelectSeq(Elements(doc, "tr", "/tr", 1), LAMBDA row : Count(row, "th") = 0)

CellsOf(row) == Elements(row, "td", "/td", 1)

\* the output is the input followed by a section heading and one new table
\* with the header row and one data row per admitted PR, in their order
Synthesized(pass) ==
    /\ SubSeq(pass.bodyOut, 1, Len(pass.bodyIn)) = pass.bodyIn
    /\ Count(Appended(pass), "h2") = 1
    /\ Count(Appended(pass), "table") = 1
    /\ IndexFrom(Appended(pass), "/h2", 1) < IndexFrom(Appended(pass), "table", 1)
    /\ Appended(pass)[Len(Appended(pass))].k = "/table"
    /\ IsHeaderRow(Elements(Appended(pass), "tr", "/tr", 1)[1])
    /\ Len(Elements(Appended(pass), "tr", "/tr", 1)) = Len(pass.admitted) + 1
    /\ Len(DataRows(Appended(pass))) = Len(pass.admitted)
    /\ \A i \in 1..Len(pass.admitted) :
        /\ Len(CellsOf(DataRows(Appended(pass))[i])) = NumColumns
        /\ PRNumberOfCell(CellsOf(DataRows(Appended(pass))[i])[3])
                = pass.admitted[i].pr.number

NoTableMeetsAdmitted ==
    /\ lastPass.outcome = "ok"
    /\ TableMatch(lastPass.bodyIn)[1] = 0
    /\ lastPass.admitted # <<>>

IsRelease42(prs) ==
    Len(prs) = 1 /\ prs[1].number = 42 /\ prs[1].title = ReleaseTitle

Row42Reads123 ==
    /\ Len(DataRows(Appended(lastPass))) = 1
    /\ extractVersionFromCell(CellsOf(DataRows(Appended(lastPass))[1])[2]) = V(1, 2, 3)
    /\ PRRef(42) \in Range(CellsOf(DataRows(Appended(lastPass))[1])[3])

TextFallback ==
    IF VersionIn(candidate.title) # EmptyVersion THEN VersionIn(candidate.title)
    ELSE IF VersionIn(candidate.body) # EmptyVersion THEN VersionIn(candidate.body)
    ELSE EmptyVersion

\* C16: for every outcome of the PR-detail fetch and of the manifest fetch,
\* extractVersionAndPRDetails returns (it never raises to its caller), and
\* when the manifest lookup fails the version it returns is the title/body
\* fallback or empty.
C16_ExtractionNeverRaises ==
    hpc = "done" =>
        /\ ~extraction.threw
        /\ response.manifest # "ok" => extraction.version = TextFallback

\* the version package.json declares at the commit the lookup uses: the
\* merge commit, the head commit if there is no merge commit
Declared ==
    IF candidate.merge_commit_sha # NoSha THEN candidate.manifest
    ELSE IF candidate.head_sha # NoSha THEN candidate.head_manifest
    ELSE EmptyVersion

\* C17: the version is the one the manifest at the merge commit (head commit
\* if there is no merge commit) declares, whenever the lookup delivers one;
\* otherwise the first match in the title; otherwise the first match in the
\* body; otherwise the empty string.
C17_ResolutionOrder ==
    (hpc = "done" /\ ~extraction.threw) =>
        extraction.version =
            IF response.manifest = "ok" /\ Declared # EmptyVersion THEN Declared
            ELSE TextFallback

\* title and body both hold a version, the manifest lookup fails, and the
\* title's version is returned
C17_Witness ==
    /\ hpc = "done"
    /\ ~extraction.threw
    /\ response.manifest = "404"
    /\ candidate.manifest # EmptyVersion
    /\ candidate.title = VersionedTitle
    /\ candidate.body = VersionedBody
    /\ extraction.version = Version2(0, 1)

\* ------------------------------------------------------ table parser claims
\* C18: the head returned by getLatestEntryFromTable is an entry such that no
\* parsed entry has a later release instant and, among the entries of the
\* same instant, none has a newer version; the entries are returned sorted
\* descending by (release instant, version).
C18_HeadIsMaximum ==
    (hpc = "done" /\ parsedTable.entries # <<>>) =>
        /\ parsedTable.version = parsedTable.entries[1].version
        /\ parsedTable.releaseDate = parsedTable.entries[1].releaseDate
        /\ \A i, j \in 1..Len(parsedTable.entries) :
            i < j =>
                /\ parsedTable.entries[i].rawDate >= parsedTable.entries[j].rawDate
                /\ parsedTable.entries[i].rawDate = parsedTable.entries[j].rawDate =>
                    compareVersions(parsedTable.entries[j].version,
                                    parsedTable.entries[i].version) <= 0

\* -------------------------------------------------------- date parser claims
Numeric(d) == d.fmt \in {"slash", "dash"}

\* C19: parseTableDate tries the day-first pattern before the month-first
\* pattern of the same shape: a numeric date whose two leading components
\* are both valid month numbers is read day-first, one whose first component
\* exceeds the month range is never read month-first, the month-first reading
\* is taken only when the day-first reading is not a calendar date, and an
\* input that matches no pattern and no generic parse returns null.
C19_DayFirstPrecedence ==
    hpc = "done" =>
        /\ (/\ Numeric(dateInput)
            /\ dateInput.a \in 1..MonthsPerYear
            /\ dateInput.b \in 1..MonthsPerYear) =>
                dateOutput = Instant(dateInput.b, dateInput.a, 0)
        /\ (Numeric(dateInput) /\ ValidDay(dateInput.b, dateInput.a)) =>
                dateOutput = Instant(dateInput.b, dateInput.a, 0)
        /\ (Numeric(dateInput) /\ dateInput.a > MonthsPerYear /\ dateOutput # InvalidDate) =>
                dateOutput = Instant(dateInput.b, dateInput.a, 0)
        /\ (/\ Numeric(dateInput)
            /\ ~ValidDay(dateInput.b, dateInput.a)
            /\ ValidDay(dateInput.a, dateInput.b)) =>
                dateOutput = Instant(dateInput.a, dateInput.b, 0)
        /\ (/\ Numeric(dateInput)
            /\ ~ValidDay(dateInput.b, dateInput.a)
            /\ ~ValidDay(dateInput.a, dateInput.b)) => dateOutput = InvalidDate
        /\ dateInput.fmt \in {"", "junk"} => dateOutput = InvalidDate

\* "1/2/yyyy" is read as the first day of the second month
C19_Witness ==
    /\ hpc = "done"
    /\ dateInput = DateStr("slash", 1, 2)
    /\ dateOutput = Instant(2, 1, 0)

\* -------------------------------------------------------------- pass claims
\* C20: if any required setting (owner, repo, branch, GitHub token,
\* Confluence URL, page id, email, Confluence token) is missing, the pass
\* fails with the configuration error before any request to GitHub or
\* Confluence is issued.
C20_SettingsBeforeNetwork ==
    (passes > 0 /\ settings # RequiredSettings) =>
        /\ lastPass.outcome = "incomplete settings"
        /\ lastPass.requests = {}

\* a pass ran without the branch name and failed without a request
C20_Witness ==
    /\ passes > 0
    /\ github # <<>>
    /\ settings = RequiredSettings \ {"branchName"}
    /\ lastPass.outcome = "incomplete settings"
    /\ lastPass.requests = {}

\* ------------------------------------------------------ pass frame claims
\* a step of the module that runs one pass
PassRuns == passes' = passes + 1

\* C24: a pass considers only the pull requests merged after the stored
\* last-checked timestamp: one merged at or before it is never a candidate.
C24_MergedSinceLastCheck ==
    [][(PassRuns /\ lastChecked # NoTimestamp) =>
            \A pr \in Range(lastPass'.prs) : MergedInstant(pr) > lastChecked]_vars

\* C26: a pass that admits no candidate does not write to the document
\* store: the page version number is not advanced.
C26_NoWriteWithoutAdmission ==
    [][(PassRuns /\ lastPass'.outcome = "ok" /\ lastPass'.admitted = <<>>) =>
            page'.version = page.version]_vars

\* --------------------------------------------------------- options page
\* what a field of the form can hold: nothing, white space, text
FieldValues == {"", " ", "x"}

\* String.prototype.trim
Trimmed(value) == IF value = " " THEN "" ELSE value

\* OptionsPage: the Save and Test buttons are enabled
isValid(f) == \A field \in FormFields : Trimmed(f[field]) # ""

\* OptionsPage handleInputChange
handleInputChange ==
    /\ \E field \in FormFields, value \in FieldValues :
        /\ form[field] # value
        /\ form' = [form EXCEPT ![field] = value]
    /\ UNCHANGED <<saved, stored0, passVars, triggerVars>>

\* OptionsPage handleSave: chrome.storage.sync.set(settings) with the seven
\* fields of the form; the submit button is disabled unless the form is valid
handleSave ==
    /\ isValid(form)
    /\ settings' = (settings \ FormFields) \cup {field \in FormFields : form[field] # ""}
    /\ saved' = TRUE
    /\ UNCHANGED <<form, stored0, github, page, answers, lastChecked, passes,
                   lastPass, prevPass, triggerVars>>

\* the storage is empty, or holds a branch name that something other than
\* this form has put there
InitOptions ==
    /\ settings \in {{}, {"branchName"}}
    /\ stored0 = settings
    /\ form = [field \in FormFields |-> ""]
    /\ saved = FALSE
    /\ github = <<>>
    /\ page = [body |-> <<>>, version |-> 1]
    /\ answers = <<>>
    /\ lastChecked = NoTimestamp
    /\ passes = 0
    /\ lastPass = NoPass
    /\ prevPass = NoPass
    /\ TriggersIdle
    /\ VersionsIdle
    /\ HarnessIdle

\* the background pass runs against a repository without merged pull request
NextOptions ==
    \/ handleInputChange /\ UNCHANGED <<verVars, harnessVars>>
    \/ handleSave /\ UNCHANGED <<verVars, harnessVars>>
    \/ PassIncompleteSettings /\ UNCHANGED <<verVars, harnessVars, uiVars>>
    \/ PassListingFails /\ UNCHANGED <<verVars, harnessVars, uiVars>>
    \/ PassNothingMerged /\ UNCHANGED <<verVars, harnessVars, uiVars>>

SpecOptions == InitOptions /\ [][NextOptions]_vars

\* ------------------------------------------------------ options page claims
\* C28: starting from empty storage, once the options form is valid and
\* saved, isSettingsComplete holds for the settings the background pass
\* loads, so the pass does not fail with "Incomplete settings".
C28_SavedFormSuffices ==
    [][(saved /\ stored0 = {} /\ PassRuns) =>
            /\ isSettingsComplete(settings)
            /\ lastPass'.outcome # "incomplete settings"]_vars

\* ---------------------------------------------------- row insertion claims
\* the row text a newly synthesized table holds for the admitted PRs: what
\* the merger writes without a table, less the header and the closing tag
RowsOfNewTable(admitted) ==
    SubSeq(InsertRows(<<>>, JoinNL(FormatAll(admitted))),
           Len(TableHeader) + 2,
           Len(InsertRows(<<>>, JoinNL(FormatAll(admitted)))) - 1)

\* the number of tokens of a document from position c on
FromOn(doc, c) == Len(doc) - c + 1

\* what the last call put before the closing tag, at position c, of the
\* table of the document it was given
InsertedAt(pass, c) ==
    SubSeq(pass.bodyOut, c, Len(pass.bodyOut) - FromOn(pass.bodyIn, c) - 1)

\* C29: the row text inserted into an existing table equals, character for
\* character, the row text a newly synthesized table holds for the same
\* admitted PRs, whatever the PR texts contain ($& included), and it is
\* inserted at the closing tag of the table the parser read.
C29_RowsVerbatim ==
    (/\ lastPass.outcome = "ok"
     /\ lastPass.admitted # <<>>
     /\ TableMatch(lastPass.bodyIn)[1] # 0) =>
        /\ SubSeq(lastPass.bodyOut, 1, TableMatch(lastPass.bodyIn)[2] - 1)
            = SubSeq(lastPass.bodyIn, 1, TableMatch(lastPass.bodyIn)[2] - 1)
        /\ InsertedAt(lastPass, TableMatch(lastPass.bodyIn)[2])
            = RowsOfNewTable(lastPass.admitted)

\* ------------------------------------------------- triggers and listener
\* The alarm listener and the message listener each start a pass; a pass
\* gives up control at every await, so the steps of two passes interleave.
\* The Confluence store applies an update whose version number is the
\* current one plus one and answers 409 to any other.

\* the statuses a request is refused with
Statuses == {"401", "500"}
Conflict == "409"

\* the order of the awaits of checkAndLogMergedPRs; (mutant) the timestamp
\* stored before the page is updated
NextStageStampFirst(stage) ==
    CASE stage = "loading" -> "listing"
      [] stage = "listing" -> "reading"
      [] stage = "reading" -> "merging"
      [] stage = "merging" -> "stamping"
      [] stage = "stamping" -> "writing"
      [] stage = "writing" -> "returned"

NextStage(stage) ==
    CASE stage = "loading" -> "listing"
      [] stage = "listing" -> "reading"
      [] stage = "reading" -> "merging"
      [] stage = "merging" -> "writing"
      [] stage = "writing" -> "stamping"
      [] stage = "stamping" -> "returned"

\* (mutants) the update carries the version number as read; the update
\* carries the number that follows the store's current one
VersionSentAsRead(version) == version
VersionSentCurrent(version) == page.version + 1

\* updateConfluencePage: version: { number: version + 1 }
VersionSent(version) == version + 1

\* the pass of trigger t throws at a stage
Throws(r, stage, text, status) ==
    [r EXCEPT !.pc = "threw", !.failedAt = stage,
              !.error = [text |-> text, status |-> status]]

Steps(t, r) ==
    /\ run' = [run EXCEPT ![t] = r]

\* chrome.alarms.onAlarm listener
AlarmFires ==
    /\ run["alarm"].pc = "idle"
    /\ Steps("alarm", [run["alarm"] EXCEPT !.pc = "loading"])
    /\ UNCHANGED <<message, responses, page, lastChecked>>

\* checkAndLogMergedPRs: settings from storage
LoadSettings(t) ==
    /\ run[t].pc = "loading"
    /\ Steps(t, IF isSettingsComplete(settings)
                THEN [run[t] EXCEPT !.pc = NextStage("loading")]
                ELSE Throws(run[t], "loading", "Incomplete settings", ""))
    /\ UNCHANGED <<message, responses, page, lastChecked>>

\* checkAndLogMergedPRs: fetchMergedPRs
ListPRs(t) ==
    /\ run[t].pc = "listing"
    /\ \/ \E status \in Statuses :
            Steps(t, Throws(run[t], "listing", "GitHub API error", status))
       \/ /\ github = <<>>
          /\ Steps(t, [run[t] EXCEPT !.pc = "returned"])
       \/ /\ github # <<>>
          /\ Steps(t, [run[t] EXCEPT !.pc = NextStage("listing")])
    /\ UNCHANGED <<message, responses, page, lastChecked>>

\* checkAndLogMergedPRs: fetchConfluencePage
ReadPage(t) ==
    /\ run[t].pc = "reading"
    /\ \/ \E status \in Statuses :
            Steps(t, [Throws(run[t], "reading", "Confluence API error", status)
                        EXCEPT !.reads = @ + 1])
       \/ Steps(t, [run[t] EXCEPT !.pc = NextStage("reading"), !.read = page,
                                  !.reads = @ + 1])
    /\ UNCHANGED <<message, responses, page, lastChecked>>

Merged(r, threw, updatedContent) ==
    IF threw THEN Throws(r, "merging", "TypeError", "")
    ELSE [r EXCEPT !.pc = NextStage("merging"), !.content = updatedContent]

\* checkAndLogMergedPRs: appendPRsToContent on the body that was read
MergeRows(t) ==
    /\ run[t].pc = "merging"
    /\ \E fetched \in [Numbers(github) -> PassFetches] :
        Steps(t, Merged(run[t],
                        appendPRsToContentThrows(run[t].read.body, github, fetched),
                        appendPRsToContent(run[t].read.body, github, fetched)))
    /\ UNCHANGED <<message, responses, page, lastChecked>>

Sending(r) == [r EXCEPT !.writes = @ + 1, !.sent = VersionSent(r.read.version)]

\* checkAndLogMergedPRs: updateConfluencePage
WritePage(t) ==
    /\ run[t].pc = "writing"
    /\ \/ /\ VersionSent(run[t].read.version) = page.version + 1
          /\ page' = [body |-> run[t].content,
                      version |-> VersionSent(run[t].read.version)]
          /\ Steps(t, [Sending(run[t]) EXCEPT !.pc = NextStage("writing"),
                                              !.wrotePage = TRUE])
       \/ /\ VersionSent(run[t].read.version) # page.version + 1
          /\ Steps(t, Throws(Sending(run[t]), "writing", "Confluence API error", Conflict))
          /\ UNCHANGED page
       \/ /\ \E status \in Statuses :
                Steps(t, Throws(Sending(run[t]), "writing", "Confluence API error", status))
          /\ UNCHANGED page
    /\ UNCHANGED <<message, responses, lastChecked>>

\* checkAndLogMergedPRs: the last-checked timestamp is stored
StoreLastChecked(t) ==
    /\ run[t].pc = "stamping"
    /\ lastChecked' = LatestMergeTime(github, 0)
    /\ Steps(t, [run[t] EXCEPT !.pc = NextStage("stamping"), !.wroteStamp = TRUE])
    /\ UNCHANGED <<message, responses, page>>

\* ---- the message listener
Response(success, error, count) == [success |-> success, error |-> error, count |-> count]

\* what a pass returns as count
Returned(r) == IF r.read = NoRead THEN 0 ELSE Len(github)

PassResponse(r) ==
    IF r.pc = "returned"
    THEN Response(TRUE, "", Returned(r))
    ELSE Response(FALSE, IF r.error.text # "" THEN r.error.text
                         ELSE "Unknown error occurred", 0)

UnknownAction == Response(FALSE, "Unknown action", 0)

\* (mutant) the CHECK_PRS branch without its return: the handler goes on to
\* the answer for an unknown action
SentAfterPassFallingThrough(r) ==
    IF r.pc = "returned" THEN <<PassResponse(r), UnknownAction>>
    ELSE <<PassResponse(r)>>

\* the sendResponse calls of the CHECK_PRS branch once the pass has ended
SentAfterPass(r) == <<PassResponse(r)>>

\* what testConnections returns: it catches every error
TestResults == {Response(TRUE, "", 0),
                Response(FALSE, "", 0),
                Response(FALSE, "Failed to fetch", 0)}

Actions == {"CHECK_PRS", "testConnections", "testConnections without settings", "other"}

\* chrome.runtime.onMessage listener, up to the first await of its handler
MessageArrives ==
    /\ message = NoMessage
    /\ run["message"].pc = "idle"
    /\ \E action \in Actions :
        CASE action = "CHECK_PRS" ->
                /\ message' = [action |-> action, pc |-> "awaiting pass"]
                /\ Steps("message", [run["message"] EXCEPT !.pc = "loading"])
                /\ UNCHANGED responses
          [] action = "testConnections" ->
                /\ message' = [action |-> action, pc |-> "testing"]
                /\ UNCHANGED <<run, responses>>
          [] action = "testConnections without settings" ->
                /\ message' = [action |-> action, pc |-> "done"]
                /\ responses' = Append(responses, Response(FALSE, "Settings not provided", 0))
                /\ UNCHANGED run
          [] action = "other" ->
                /\ message' = [action |-> action, pc |-> "done"]
                /\ responses' = Append(responses, UnknownAction)
                /\ UNCHANGED run
    /\ UNCHANGED <<page, lastChecked>>

\* the handler resumes after await checkAndLogMergedPRs()
PassAnswered ==
    /\ message.pc = "awaiting pass"
    /\ run["message"].pc \in {"returned", "threw"}
    /\ responses' = responses \o SentAfterPass(run["message"])
    /\ message' = [message EXCEPT !.pc = "done"]
    /\ UNCHANGED <<run, page, lastChecked>>

\* the handler resumes after await testConnections(message.settings)
TestAnswered ==
    /\ message.pc = "testing"
    /\ \E result \in TestResults : responses' = Append(responses, result)
    /\ message' = [message EXCEPT !.pc = "done"]
    /\ UNCHANGED <<run, page, lastChecked>>

\* one merged pull request, with or without a version, or none
TriggerLists ==
    {<<>>,
     <<PullRequest(1, [mo |-> 1, d |-> 1, late |-> 1], Version2(1, 0), PlainTitle,
                   <<>>, <<Txt(TxtPlain)>>)>>,
     <<PullRequest(1, [mo |-> 1, d |-> 1, late |-> 1], EmptyVersion, PlainTitle,
                   <<>>, <<Txt(TxtPlain)>>)>>}

InitTriggers ==
    /\ github \in TriggerLists
    /\ page \in {[body |-> b, version |-> 1] :
                    b \in {<<Txt(TxtIntro)>>, PageWithTable(<<>>)}}
    /\ settings \in {RequiredSettings, RequiredSettings \ {"branchName"}}
    /\ answers = <<>>
    /\ lastChecked = NoTimestamp
    /\ passes = 0
    /\ lastPass = NoPass
    /\ prevPass = NoPass
    /\ TriggersIdle
    /\ OptionsIdle
    /\ VersionsIdle
    /\ HarnessIdle

otherVars == <<verVars, harnessVars, optionVars, github, settings, answers,
               passes, lastPass, prevPass>>

NextTriggers ==
    \/ AlarmFires /\ UNCHANGED otherVars
    \/ MessageArrives /\ UNCHANGED otherVars
    \/ (\E t \in Triggers : LoadSettings(t)) /\ UNCHANGED otherVars
    \/ (\E t \in Triggers : ListPRs(t)) /\ UNCHANGED otherVars
    \/ (\E t \in Triggers : ReadPage(t)) /\ UNCHANGED otherVars
    \/ (\E t \in Triggers : MergeRows(t)) /\ UNCHANGED otherVars
    \/ (\E t \in Triggers : WritePage(t)) /\ UNCHANGED otherVars
    \/ (\E t \in Triggers : StoreLastChecked(t)) /\ UNCHANGED otherVars
    \/ PassAnswered /\ UNCHANGED otherVars
    \/ TestAnswered /\ UNCHANGED otherVars

SpecTriggers == InitTriggers /\ [][NextTriggers]_vars

\* the handler of a message resumes once the promise it awaits is settled
SpecListener ==
    /\ SpecTriggers
    /\ WF_vars(PassAnswered /\ UNCHANGED otherVars)
    /\ WF_vars(TestAnswered /\ UNCHANGED otherVars)

\* ---------------------------------------------------------- trigger claims
\* the stages whose failure is a refused request
RequestStages == {"listing", "reading", "writing"}

RefusedAt(t) == IF run[t].pc = "threw" THEN run[t].failedAt ELSE ""

\* C21: the errors raised for a failed candidate listing, a failed page read
\* and a failed page write are pairwise distinguishable and carry the
\* underlying status.
C21_ErrorTellsStage ==
    /\ \A t \in Triggers :
        RefusedAt(t) \in RequestStages => run[t].error.status \in Statuses \cup {Conflict}
    /\ \A t, u \in Triggers :
        (/\ RefusedAt(t) \in RequestStages
         /\ RefusedAt(u) \in RequestStages
         /\ RefusedAt(t) # RefusedAt(u)) => run[t].error # run[u].error

\* a pass that threw takes no further step
EndedInError == \A t \in Triggers : run[t].pc = "threw" => run'[t] = run[t]

RejectedWrite(t) ==
    /\ run[t].pc = "threw"
    /\ run[t].failedAt = "writing"
    /\ run[t].error.status = Conflict

\* C22: a pass sends at most one page update, the update carries the version
\* number read at the start of the pass plus one, and when the store rejects
\* it (version conflict) the pass ends in error without reading the page
\* again or writing again.
C22_SingleOptimisticWrite ==
    /\ [](\A t \in Triggers :
            /\ run[t].writes <= 1
            /\ run[t].writes = 1 => run[t].sent = run[t].read.version + 1
            /\ RejectedWrite(t) => (run[t].reads = 1 /\ run[t].writes = 1))
    /\ [][EndedInError]_vars

\* the store has rejected the update of one pass after taking the other's
C22_Witness ==
    /\ RejectedWrite("message")
    /\ run["message"].sent = run["message"].read.version + 1
    /\ run["alarm"].wrotePage

\* "between its first fetch and its final write"
InFlight(t) == run[t].pc \in {"listing", "reading", "merging", "writing"}

\* C23: passes never overlap: under any interleaving of the hourly alarm and
\* manual CHECK_PRS messages, no pass starts while another is between its
\* first fetch and its final write.
C23_PassesNeverOverlap == ~(InFlight("alarm") /\ InFlight("message"))

\* the stages the claim names
NamedStages == {"loading", "listing", "reading", "merging", "writing"}

RowsFor(doc, n) ==
    Cardinality({i \in 1..Len(DataRows(doc)) :
                    PRNumberOfCell(CellsOf(DataRows(doc)[i])[3]) = n})

BothReadSameVersion ==
    /\ run["alarm"].read # NoRead
    /\ run["message"].read # NoRead
    /\ run["alarm"].read.version = run["message"].read.version

\* C27: if two passes interleave so that both read the page at version n,
\* and the store accepts an update only with version number current + 1,
\* at most one of the two writes succeeds: the rows of the successful pass are
\* not overwritten and no PR is appended twice.
C27_NoLostUpdate ==
    BothReadSameVersion =>
        /\ ~(run["alarm"].wrotePage /\ run["message"].wrotePage)
        /\ \A t \in Triggers : run[t].wrotePage => page.body = run[t].content
        /\ \A n \in Numbers(github) :
            RowsFor(page.body, n) <= RowsFor(run["alarm"].read.body, n) + 1

\* both passes read version 1 and merged a row; one write was taken, the
\* other rejected
C27_Witness ==
    /\ BothReadSameVersion
    /\ run["alarm"].wrotePage
    /\ RowsFor(page.body, 1) = 1
    /\ run["message"].content # run["message"].read.body
    /\ RejectedWrite("message")

\* the work the handler of the message started has succeeded or thrown
WorkEnded ==
    \/ message.pc = "testing"
    \/ message.pc = "awaiting pass" /\ run["message"].pc \in {"returned", "threw"}

\* C30: every message to the background listener gets exactly one response,
\* for each action and every outcome of the work it starts; a failed
\* CHECK_PRS pass and an unknown action both answer with success = false and
\* an error text.
C30_ExactlyOneResponse ==
    /\ [](Len(responses) <= 1)
    /\ [](message.pc = "done" =>
            /\ Len(responses) = 1
            /\ (\/ message.action = "other"
                \/ message.action = "CHECK_PRS" /\ run["message"].pc = "threw") =>
                    (~responses[1].success /\ responses[1].error # ""))
    /\ WorkEnded ~> (message.pc = "done" /\ Len(responses) = 1)

\* a CHECK_PRS pass failed and the one answer carries its error
C30_Witness ==
    /\ message = [action |-> "CHECK_PRS", pc |-> "done"]
    /\ run["message"].pc = "threw"
    /\ responses = <<Response(FALSE, "Confluence API error", 0)>>

====
